---- MODULE Spec2Model ----
(***************************************************************************)
(* The expense ledger of src/ledger.py with the entities of src/models.py  *)
(* and the split strategies of src/split_strategies.py.                    *)
(*                                                                         *)
(* Representation.  The program computes on Python floats; the model       *)
(* computes on exact fixed-point integers.  One cent is UNITS_PER_CENT     *)
(* units, chosen so that every share the strategies produce from the       *)
(* inputs below (amount / n, amount * w / W, amount * pct / 100) is a      *)
(* whole number of units.  round(x, 2) is Python's round-half-even on the  *)
(* exact value.  Names are sequences of one-character strings so that      *)
(* strip() and lower() are computed, not assumed.                          *)
(***************************************************************************)
EXTENDS Integers, Sequences, FiniteSets, TLC

VARIABLES people, expenses, lastOp, txs, recomputed, call, result

vars == <<people, expenses, lastOp, txs, recomputed, call, result>>

(***************************************************************************)
(* Bounds of the model                                                     *)
(***************************************************************************)
MaxExpenses == 2

(***************************************************************************)
(* Program constants                                                       *)
(***************************************************************************)
MAX_NAME_LENGTH == 50
MAX_PARTICIPANTS == 100
\* 999999.99 in thousandths of a currency unit (the unit of amount inputs)
MAX_AMOUNT == 999999990
\* percentages are in hundredths of a percent: 0.01, 100.0, 0.01
MIN_PERCENTAGE == 1
MAX_PERCENTAGE == 10000
PERCENTAGE_TOLERANCE == 1
ROUNDING_PRECISION == 2

\* units per cent: 10000 for amount * pct / 100 with pct in hundredths,
\* 3 more for thirds (and with them halves, quarters, fifths, sixths)
UNITS_PER_CENT == 3 * 10000
\* thousandths of a currency unit per cent
MILLS_PER_CENT == 2 * 5

CentsToUnits(c) == c * UNITS_PER_CENT
\* 0.01 currency units
SETTLEMENT_TOLERANCE == CentsToUnits(1)

(***************************************************************************)
(* Arithmetic helpers                                                      *)
(***************************************************************************)
Abs(x) == IF x < 0 THEN -x ELSE x
Min(x, y) == IF x <= y THEN x ELSE y

\* Python round(): x / d to the nearest integer, ties to the even one.
\* \div and % are floor division and its non-negative remainder.
RoundHalfEven(x, d) ==
  LET q == x \div d
      r == x % d
  IN  IF 2 * r < d THEN q
      ELSE IF 2 * r > d THEN q + 1
      ELSE IF q % 2 = 0 THEN q ELSE q + 1

\* round(x, ROUNDING_PRECISION) of a value in units, in units
Round2(x) == CentsToUnits(RoundHalfEven(x, UNITS_PER_CENT))

\* round(amount, 2) of an amount in thousandths, in cents
RoundAmount(mills) == RoundHalfEven(mills, MILLS_PER_CENT)

RECURSIVE SumSeq(_)
SumSeq(s) == IF s = <<>> THEN 0 ELSE Head(s) + SumSeq(Tail(s))

(***************************************************************************)
(* Names: str.strip(), str.lower(), and the name pattern                   *)
(***************************************************************************)
UpperLetters == <<"A", "B", "C", "D", "E", "F", "G", "H", "I", "J", "K", "L", "M",
                  "N", "O", "P", "Q", "R", "S", "T", "U", "V", "W", "X", "Y", "Z">>
LowerLetters == <<"a", "b", "c", "d", "e", "f", "g", "h", "i", "j", "k", "l", "m",
                  "n", "o", "p", "q", "r", "s", "t", "u", "v", "w", "x", "y", "z">>
Digits == {"0", "1", "2", "3", "4", "5", "6", "7", "8", "9"}
Whitespace == {" ", "\t"}

Range(s) == {s[i] : i \in DOMAIN s}

UpperSet == Range(UpperLetters)
LowerOf ==
  [c \in UpperSet |->
     LowerLetters[CHOOSE i \in DOMAIN UpperLetters : UpperLetters[i] = c]]
NameChars ==
  UpperSet \cup Range(LowerLetters) \cup Digits \cup Whitespace \cup {"-", "_", "."}

LowerChar(c) == IF c \in UpperSet THEN LowerOf[c] ELSE c

Lower(s) == [i \in DOMAIN s |-> LowerChar(s[i])]

RECURSIVE LStrip(_)
LStrip(s) ==
  IF s # <<>> /\ Head(s) \in Whitespace THEN LStrip(Tail(s)) ELSE s

RECURSIVE RStrip(_)
RStrip(s) ==
  IF s # <<>> /\ s[Len(s)] \in Whitespace
  THEN RStrip(SubSeq(s, 1, Len(s) - 1)) ELSE s

Strip(s) == RStrip(LStrip(s))

\* name.strip().lower()
CleanName(s) == Lower(Strip(s))

\* re.match(r"^[a-zA-Z0-9\s\-_\.]+$", name)
MatchesNamePattern(s) ==
  /\ s # <<>>
  /\ \A i \in DOMAIN s : s[i] \in NameChars

(***************************************************************************)
(* is_valid_money: at most ROUNDING_PRECISION decimals                     *)
(***************************************************************************)
\* of a value in units
is_valid_money(v) == v % UNITS_PER_CENT = 0
\* of an amount in thousandths
is_valid_amount(mills) == mills % MILLS_PER_CENT = 0

(***************************************************************************)
(* Split strategies (src/split_strategies.py).  A parameter dictionary is  *)
(* a sequence of [key, val] entries with distinct raw keys; weights are    *)
(* integers, percentages hundredths of a percent, exact amounts units.     *)
(* compute_shares returns [err, shares]: err is "none" or the exception    *)
(* raised, shares the mapping as a sequence of [name, share] in the order  *)
(* of the participants, shares in units.                                   *)
(***************************************************************************)
Raised(e) == [err |-> e, shares |-> <<>>]

\* {k.strip().lower(): d[k] for k in d.keys()}: a later raw key that cleans
\* to the same name overwrites an earlier one
\* the keys taken as they were written
RawKeys(params) == {params[i].key : i \in DOMAIN params}

CleanKeys(params) == {CleanName(params[i].key) : i \in DOMAIN params}

CleanValue(params, k) ==
  LET idx == {i \in DOMAIN params : CleanName(params[i].key) = k}
  IN  params[CHOOSE i \in idx : \A j \in idx : j <= i].val

\* an equal split that rounds every share to the cent
EqualSplitRounded(amount, participants) ==
  [err |-> "none",
   shares |-> [i \in DOMAIN participants |->
                 [name |-> participants[i],
                  share |-> Round2(CentsToUnits(amount) \div Len(participants))]]]

EqualSplit(amount, participants) ==
  [err |-> "none",
   shares |-> [i \in DOMAIN participants |->
                 [name |-> participants[i],
                  share |-> CentsToUnits(amount) \div Len(participants)]]]

\* a weights split that divides by the number of participants, not by the
\* total weight
WeightsSplitByCount(amount, participants, weights) ==
  LET total_weight ==
        SumSeq([i \in DOMAIN participants |-> CleanValue(weights, participants[i])])
  IN  IF weights = <<>> THEN Raised("ValueError")
      ELSE IF \E k \in CleanKeys(weights) : CleanValue(weights, k) < 0
        THEN Raised("ValueError")
      ELSE IF CleanKeys(weights) # Range(participants) THEN Raised("ValueError")
      ELSE IF total_weight = 0 THEN Raised("ValueError")
      ELSE [err |-> "none",
            shares |-> [i \in DOMAIN participants |->
                          [name |-> participants[i],
                           share |-> (CentsToUnits(amount)
                                        * CleanValue(weights, participants[i]))
                                     \div Len(participants)]]]

WeightsSplit(amount, participants, weights) ==
  LET total_weight ==
        SumSeq([i \in DOMAIN participants |-> CleanValue(weights, participants[i])])
  IN  IF weights = <<>> THEN Raised("ValueError")
      ELSE IF \E k \in CleanKeys(weights) : CleanValue(weights, k) < 0
        THEN Raised("ValueError")
      ELSE IF CleanKeys(weights) # Range(participants) THEN Raised("ValueError")
      ELSE IF total_weight = 0 THEN Raised("ValueError")
      ELSE [err |-> "none",
            shares |-> [i \in DOMAIN participants |->
                          [name |-> participants[i],
                           share |-> (CentsToUnits(amount)
                                        * CleanValue(weights, participants[i]))
                                     \div total_weight]]]

\* a percent split that takes only sums strictly inside the tolerance
PercentSplitStrict(amount, participants, percentages) ==
  LET total_percent ==
        SumSeq([i \in DOMAIN participants |->
                  CleanValue(percentages, participants[i])])
  IN  IF percentages = <<>> THEN Raised("ValueError")
      ELSE IF \E k \in CleanKeys(percentages) :
                \/ CleanValue(percentages, k) < MIN_PERCENTAGE
                \/ CleanValue(percentages, k) > MAX_PERCENTAGE
        THEN Raised("ValueError")
      ELSE IF CleanKeys(percentages) # Range(participants) THEN Raised("ValueError")
      ELSE IF Abs(total_percent - 100 * 100) >= PERCENTAGE_TOLERANCE
        THEN Raised("ValueError")
      ELSE [err |-> "none",
            shares |-> [i \in DOMAIN participants |->
                          [name |-> participants[i],
                           share |-> amount * CleanValue(percentages, participants[i])
                                      * (UNITS_PER_CENT \div (100 * 100))]]]

PercentSplit(amount, participants, percentages) ==
  LET total_percent ==
        SumSeq([i \in DOMAIN participants |->
                  CleanValue(percentages, participants[i])])
  IN  IF percentages = <<>> THEN Raised("ValueError")
      ELSE IF \E k \in CleanKeys(percentages) :
                \/ CleanValue(percentages, k) < MIN_PERCENTAGE
                \/ CleanValue(percentages, k) > MAX_PERCENTAGE
        THEN Raised("ValueError")
      ELSE IF CleanKeys(percentages) # Range(participants) THEN Raised("ValueError")
      ELSE IF Abs(total_percent - 100 * 100) > PERCENTAGE_TOLERANCE
        THEN Raised("ValueError")
      ELSE [err |-> "none",
            shares |-> [i \in DOMAIN participants |->
                          [name |-> participants[i],
                           \* amount * pct / 100, pct in hundredths, in units
                           share |-> amount * CleanValue(percentages, participants[i])
                                      * (UNITS_PER_CENT \div (100 * 100))]]]

\* an exact split that compares the sum with the amount unrounded
ExactSplitUnrounded(amount, participants, exact_amounts) ==
  LET total ==
        SumSeq([i \in DOMAIN participants |->
                  CleanValue(exact_amounts, participants[i])])
  IN  IF exact_amounts = <<>> \/ CleanKeys(exact_amounts) # Range(participants)
        THEN Raised("ValueError")
      ELSE IF total # CentsToUnits(amount) THEN Raised("ValueError")
      ELSE [err |-> "none",
            shares |-> [i \in DOMAIN participants |->
                          [name |-> participants[i],
                           share |-> CleanValue(exact_amounts, participants[i])]]]

ExactSplit(amount, participants, exact_amounts) ==
  LET total ==
        SumSeq([i \in DOMAIN participants |->
                  CleanValue(exact_amounts, participants[i])])
  IN  IF exact_amounts = <<>> \/ CleanKeys(exact_amounts) # Range(participants)
        THEN Raised("ValueError")
      ELSE IF Round2(total) # Round2(CentsToUnits(amount)) THEN Raised("ValueError")
      ELSE [err |-> "none",
            shares |-> [i \in DOMAIN participants |->
                          [name |-> participants[i],
                           share |-> CleanValue(exact_amounts, participants[i])]]]

\* expense.split.compute_shares(expense.amount, expense.participants)
compute_shares(split, amount, participants) ==
  CASE split.kind = "equal"   -> EqualSplit(amount, participants)
    [] split.kind = "weights" -> WeightsSplit(amount, participants, split.params)
    [] split.kind = "percent" -> PercentSplit(amount, participants, split.params)
    [] split.kind = "exact"   -> ExactSplit(amount, participants, split.params)

(***************************************************************************)
(* Entities (src/models.py).  A constructor returns [err, ...]: err is     *)
(* "none" or the exception a setter raised.                                *)
(***************************************************************************)
\* Person.name setter
NameError(name) ==
  IF name = <<>> THEN "ValueError"
  ELSE IF Len(Strip(name)) = 0 THEN "ValueError"
  ELSE IF Len(Strip(name)) > MAX_NAME_LENGTH THEN "ValueError"
  ELSE IF ~MatchesNamePattern(Strip(name)) THEN "ValueError"
  ELSE "none"

\* Person(name, balance, paid, owe): the name and balance setters validate,
\* paid and owe are stored as given
Person(name, balance, paid, owe) ==
  IF NameError(name) # "none" THEN [err |-> NameError(name)]
  ELSE IF ~is_valid_money(balance) THEN [err |-> "ValueError"]
  ELSE [err |-> "none",
        person |-> [name |-> CleanName(name), balance |-> balance,
                    paid |-> paid, owe |-> owe]]

\* Expense.amount setter, amount in thousandths
AmountError(amount) ==
  IF ~is_valid_amount(amount) THEN "ValueError"
  ELSE IF amount <= 0 THEN "ValueError"
  ELSE IF amount > MAX_AMOUNT THEN "ValueError"
  ELSE "none"

\* a participants setter that does not look for duplicates
ParticipantsErrorNoDuplicates(participants) ==
  IF participants = <<>> THEN "ValueError"
  ELSE IF Len(participants) > MAX_PARTICIPANTS THEN "ValueError"
  ELSE IF \E i \in DOMAIN participants :
            \/ CleanName(participants[i]) = <<>>
            \/ Len(CleanName(participants[i])) > MAX_NAME_LENGTH
            \/ ~MatchesNamePattern(CleanName(participants[i]))
    THEN "ValueError"
  ELSE "none"

\* Expense.participants setter
ParticipantsError(participants) ==
  IF participants = <<>> THEN "ValueError"
  ELSE IF Len(participants) > MAX_PARTICIPANTS THEN "ValueError"
  ELSE IF \E i \in DOMAIN participants :
            \/ CleanName(participants[i]) = <<>>
            \/ Len(CleanName(participants[i])) > MAX_NAME_LENGTH
            \/ ~MatchesNamePattern(CleanName(participants[i]))
    THEN "ValueError"
  ELSE IF Cardinality({CleanName(participants[i]) : i \in DOMAIN participants})
            # Len(participants)
    THEN "ValueError"
  ELSE "none"

SplitKinds == {"equal", "weights", "percent", "exact"}

\* the strategy object Expense.__init__ builds: the parameters are stored,
\* compute_shares is not called
MakeSplit(split, kwargs) ==
  CASE split = "equal"   -> [kind |-> "equal", params |-> <<>>]
    [] split = "weights" -> [kind |-> "weights", params |-> kwargs.weights]
    [] split = "percent" -> [kind |-> "percent", params |-> kwargs.percentages]
    [] split = "exact"   -> [kind |-> "exact", params |-> kwargs.exact_amounts]

\* Expense(payer, amount, participants, split, **kwargs); the stored amount
\* is round(amount, 2), in cents
Expense(payer, amount, participants, split, kwargs) ==
  IF payer = <<>> THEN [err |-> "ValueError"]
  ELSE IF AmountError(amount) # "none" THEN [err |-> AmountError(amount)]
  ELSE IF ParticipantsError(participants) # "none"
    THEN [err |-> ParticipantsError(participants)]
  ELSE IF split \notin SplitKinds THEN [err |-> "ValueError"]
  ELSE [err |-> "none",
        expense |-> [payer |-> payer,
                     amount |-> RoundAmount(amount),
                     participants |->
                       [i \in DOMAIN participants |-> CleanName(participants[i])],
                     split |-> MakeSplit(split, kwargs)]]

(***************************************************************************)
(* Ledger (src/ledger.py).  people is the dict in insertion order, a       *)
(* sequence of persons [name, balance, paid, owe] with balance, paid and   *)
(* owe in units; expenses is the list of expenses.  An operation returns   *)
(* the collections it leaves behind and err, "none" or the exception it    *)
(* raised.                                                                 *)
(***************************************************************************)
HasPerson(ppl, name) == \E i \in DOMAIN ppl : ppl[i].name = name

IndexOf(ppl, name) == CHOOSE i \in DOMAIN ppl : ppl[i].name = name

\* an add_person that replaces the person who is already there
add_person_overwriting(ppl, name, balance, paid, owe) ==
  LET name_clean == CleanName(name)
      p == Person(name_clean, balance, paid, owe)
  IN  IF p.err # "none" THEN [people |-> ppl, err |-> p.err]
      ELSE IF HasPerson(ppl, name_clean)
        THEN [people |-> [ppl EXCEPT ![IndexOf(ppl, name_clean)] = p.person],
              err |-> "none"]
      ELSE [people |-> Append(ppl, p.person), err |-> "none"]

add_person(ppl, name, balance, paid, owe) ==
  LET name_clean == CleanName(name)
      p == Person(name_clean, balance, paid, owe)
  IN  IF HasPerson(ppl, name_clean) THEN [people |-> ppl, err |-> "none"]
      ELSE IF p.err # "none" THEN [people |-> ppl, err |-> p.err]
      ELSE [people |-> Append(ppl, p.person), err |-> "none"]

\* prompts whose answer is not looked at: every missing person is created
RECURSIVE CreateMissingAlways(_, _, _)
CreateMissingAlways(ppl, names, yes) ==
  IF names = <<>> THEN [people |-> ppl, err |-> "none"]
  ELSE IF HasPerson(ppl, CleanName(Head(names)))
    THEN CreateMissingAlways(ppl, Tail(names), yes)
  ELSE LET r == add_person(ppl, Head(names), 0, 0, 0)
       IN  IF r.err # "none" THEN r
           ELSE CreateMissingAlways(r.people, Tail(names), yes)

\* prompts that ask for the payer only and leave unknown participants alone
CreateMissingPayerOnly(ppl, names, yes) ==
  IF names = <<>> \/ HasPerson(ppl, CleanName(Head(names)))
  THEN [people |-> ppl, err |-> "none"]
  ELSE IF yes = 0 THEN [people |-> ppl, err |-> "IndexError"]
  ELSE add_person(ppl, Head(names), 0, 0, 0)

\* The "Create? (y/n)" prompts of add_expense, for the payer and then for each
\* cleaned participant.  The first "n" raises, so the answers a call can use
\* are given by yes, the number of prompts answered "y" before the first "n".
RECURSIVE CreateMissing(_, _, _)
CreateMissing(ppl, names, yes) ==
  IF names = <<>> THEN [people |-> ppl, err |-> "none"]
  ELSE IF HasPerson(ppl, CleanName(Head(names)))
    THEN CreateMissing(ppl, Tail(names), yes)
  ELSE IF yes = 0 THEN [people |-> ppl, err |-> "IndexError"]
  ELSE LET r == add_person(ppl, Head(names), 0, 0, 0)
       IN  IF r.err # "none" THEN r
           ELSE CreateMissing(r.people, Tail(names), yes - 1)

NonBlank(p) == Strip(p) # <<>>

\* an add_expense that puts the new expense first
add_expense_prepending(ppl, exps, payer, amount, participants, split, kwargs, yes) ==
  LET payer_clean == CleanName(payer)
      kept == SelectSeq(participants, NonBlank)
      participants_clean == [i \in DOMAIN kept |-> CleanName(kept[i])]
      r == CreateMissing(ppl, <<payer>> \o participants_clean, yes)
      e == Expense(payer_clean, amount, participants_clean, split, kwargs)
      unchanged(err) == [people |-> ppl, expenses |-> exps, err |-> err]
  IN  IF payer = <<>> \/ Strip(payer) = <<>> THEN unchanged("ValueError")
      ELSE IF participants = <<>> THEN unchanged("ValueError")
      ELSE IF amount <= 0 THEN unchanged("ValueError")
      ELSE IF participants_clean = <<>> THEN unchanged("ValueError")
      ELSE IF r.err # "none"
        THEN [people |-> r.people, expenses |-> exps, err |-> r.err]
      ELSE IF e.err # "none"
        THEN [people |-> r.people, expenses |-> exps, err |-> e.err]
      ELSE [people |-> [r.people EXCEPT
                          ![IndexOf(r.people, e.expense.payer)].paid =
                             @ + CentsToUnits(e.expense.amount)],
            expenses |-> <<e.expense>> \o exps,
            err |-> "none"]

add_expense(ppl, exps, payer, amount, participants, split, kwargs, yes) ==
  LET payer_clean == CleanName(payer)
      kept == SelectSeq(participants, NonBlank)
      participants_clean == [i \in DOMAIN kept |-> CleanName(kept[i])]
      r == CreateMissing(ppl, <<payer>> \o participants_clean, yes)
      e == Expense(payer_clean, amount, participants_clean, split, kwargs)
      unchanged(err) == [people |-> ppl, expenses |-> exps, err |-> err]
  IN  IF payer = <<>> \/ Strip(payer) = <<>> THEN unchanged("ValueError")
      ELSE IF participants = <<>> THEN unchanged("ValueError")
      ELSE IF amount <= 0 THEN unchanged("ValueError")
      ELSE IF participants_clean = <<>> THEN unchanged("ValueError")
      ELSE IF r.err # "none"
        THEN [people |-> r.people, expenses |-> exps, err |-> r.err]
      ELSE IF e.err # "none"
        THEN [people |-> r.people, expenses |-> exps, err |-> e.err]
      ELSE [people |-> [r.people EXCEPT
                          ![IndexOf(r.people, e.expense.payer)].paid =
                             @ + CentsToUnits(e.expense.amount)],
            expenses |-> Append(exps, e.expense),
            err |-> "none"]

\* an accumulation that rounds each share to the cent before adding it
RECURSIVE AddSharesRounded(_, _)
AddSharesRounded(ppl, shares) ==
  IF shares = <<>> THEN [people |-> ppl, err |-> "none"]
  ELSE IF ~HasPerson(ppl, Head(shares).name) THEN [people |-> ppl, err |-> "KeyError"]
  ELSE AddSharesRounded([ppl EXCEPT ![IndexOf(ppl, Head(shares).name)].owe =
                                       @ + Round2(Head(shares).share)],
                        Tail(shares))

\* for participant, share in mapping.items(): self.people[participant].owe += share
RECURSIVE AddShares(_, _)
AddShares(ppl, shares) ==
  IF shares = <<>> THEN [people |-> ppl, err |-> "none"]
  ELSE IF ~HasPerson(ppl, Head(shares).name) THEN [people |-> ppl, err |-> "KeyError"]
  ELSE AddShares([ppl EXCEPT ![IndexOf(ppl, Head(shares).name)].owe =
                                @ + Head(shares).share],
                 Tail(shares))

\* for expense in self.expenses: an exception leaves the owe totals as they
\* are at that point
RECURSIVE AccumulateOwe(_, _)
AccumulateOwe(ppl, exps) ==
  IF exps = <<>> THEN [people |-> ppl, err |-> "none"]
  ELSE LET mapping == compute_shares(Head(exps).split, Head(exps).amount,
                                     Head(exps).participants)
           added == AddShares(ppl, mapping.shares)
       IN  IF mapping.err # "none" THEN [people |-> ppl, err |-> mapping.err]
           ELSE IF added.err # "none" THEN added
           ELSE AccumulateOwe(added.people, Tail(exps))

\* a recomputation that forgets to reset the owe totals
KeepOwe(ppl) == ppl

ResetOwe(ppl) == [i \in DOMAIN ppl |-> [ppl[i] EXCEPT !.owe = 0]]

\* a recomputation that stores paid - owe unrounded
balances_unrounded(ppl, exps) ==
  LET acc == AccumulateOwe(ResetOwe(ppl), exps)
  IN  IF acc.err # "none" THEN acc
      ELSE [people |-> [i \in DOMAIN acc.people |->
                          [acc.people[i] EXCEPT
                             !.balance = acc.people[i].paid - acc.people[i].owe]],
            err |-> "none"]

balances(ppl, exps) ==
  LET acc == AccumulateOwe(ResetOwe(ppl), exps)
  IN  IF acc.err # "none" THEN acc
      ELSE [people |-> [i \in DOMAIN acc.people |->
                          [acc.people[i] EXCEPT
                             !.balance = Round2(acc.people[i].paid - acc.people[i].owe)]],
            err |-> "none"]

\* {p.name: p for p in self.people.values() if ...}: the indices into people,
\* in insertion order
Creditors(ppl) == SelectSeq([i \in DOMAIN ppl |-> i], LAMBDA i : ppl[i].balance > 0)
Debitors(ppl) == SelectSeq([i \in DOMAIN ppl |-> i], LAMBDA i : ppl[i].balance < 0)

\* a max(..., key=balance) that returns the last of the best
MaxCreditorLast(ppl, creditors) ==
  creditors[CHOOSE k \in DOMAIN creditors :
              /\ \A j \in DOMAIN creditors :
                   ppl[creditors[j]].balance <= ppl[creditors[k]].balance
              /\ \A j \in (k + 1) .. Len(creditors) :
                   ppl[creditors[j]].balance < ppl[creditors[k]].balance]

\* max(..., key=balance) and min(..., key=balance): the first of the best
MaxCreditor(ppl, creditors) ==
  creditors[CHOOSE k \in DOMAIN creditors :
              /\ \A j \in DOMAIN creditors :
                   ppl[creditors[j]].balance <= ppl[creditors[k]].balance
              /\ \A j \in 1 .. (k - 1) :
                   ppl[creditors[j]].balance < ppl[creditors[k]].balance]

\* a min(..., key=balance) that returns the first debitor, whatever it owes
FirstDebitor(ppl, debitors) == debitors[1]

MaxDebitor(ppl, debitors) ==
  debitors[CHOOSE k \in DOMAIN debitors :
             /\ \A j \in DOMAIN debitors :
                  ppl[debitors[j]].balance >= ppl[debitors[k]].balance
             /\ \A j \in 1 .. (k - 1) :
                  ppl[debitors[j]].balance > ppl[debitors[k]].balance]

Without(s, x) == SelectSeq(s, LAMBDA y : y # x)

\* a transfer of the creditor's whole balance, whatever the debitor owes
transfer_creditor_balance(creditor_balance, debitor_balance) ==
  Round2(creditor_balance)

\* a transfer of one cent at a time
transfer_one_cent(creditor_balance, debitor_balance) == CentsToUnits(1)

\* a transfer of the larger of the two balances
transfer_larger(creditor_balance, debitor_balance) ==
  Round2(IF creditor_balance > Abs(debitor_balance)
         THEN creditor_balance ELSE Abs(debitor_balance))

transfer_amount(creditor_balance, debitor_balance) ==
  Round2(Min(creditor_balance, Abs(debitor_balance)))

\* the condition of the while loop of settle
loop_condition(ppl, creditors, debitors) ==
  /\ creditors # <<>>
  /\ debitors # <<>>
  /\ ppl[MaxCreditor(ppl, creditors)].balance > SETTLEMENT_TOLERANCE

\* an iteration that takes the transfer from the creditor and never gives it
\* to the debitor
settle_iteration_one_sided(ppl, creditors, debitors) ==
  LET c == MaxCreditor(ppl, creditors)
      d == MaxDebitor(ppl, debitors)
      t == transfer_amount(ppl[c].balance, ppl[d].balance)
      paid_out == [ppl EXCEPT ![c].balance = Round2(@ - t)]
  IN  [people |-> paid_out,
       creditors |-> IF Abs(paid_out[c].balance) <= SETTLEMENT_TOLERANCE
                     THEN Without(creditors, c) ELSE creditors,
       debitors |-> Without(debitors, d),
       tx |-> [from |-> ppl[d].name, to |-> ppl[c].name, amount |-> t]]

\* one iteration of the while loop of settle: the balances, the creditors and
\* debitors that remain, and the transaction it prints
settle_iteration(ppl, creditors, debitors) ==
  LET c == MaxCreditor(ppl, creditors)
      d == MaxDebitor(ppl, debitors)
      t == transfer_amount(ppl[c].balance, ppl[d].balance)
      paid_out == [ppl EXCEPT ![c].balance = Round2(@ - t),
                              ![d].balance = Round2(@ + t)]
  IN  [people |-> paid_out,
       creditors |-> IF Abs(paid_out[c].balance) <= SETTLEMENT_TOLERANCE
                     THEN Without(creditors, c) ELSE creditors,
       debitors |-> IF Abs(paid_out[d].balance) <= SETTLEMENT_TOLERANCE
                    THEN Without(debitors, d) ELSE debitors,
       tx |-> [from |-> ppl[d].name, to |-> ppl[c].name, amount |-> t]]

\* the while loop of settle: the balances and the transactions printed so far
RECURSIVE SettleLoop(_, _, _, _)
SettleLoop(ppl, creditors, debitors, out) ==
  IF ~loop_condition(ppl, creditors, debitors)
  THEN [people |-> ppl, txs |-> out]
  ELSE LET step == settle_iteration(ppl, creditors, debitors)
       IN  SettleLoop(step.people, step.creditors, step.debitors,
                      Append(out, step.tx))

\* a clean-up that resets the whole person rather than the balance
ClampPerson(ppl) ==
  [i \in DOMAIN ppl |->
     IF Abs(ppl[i].balance) <= SETTLEMENT_TOLERANCE
     THEN [ppl[i] EXCEPT !.balance = 0, !.owe = 0] ELSE ppl[i]]

\* a settlement without the clean-up
ClampNothing(ppl) == ppl

\* the clean-up of the balances within the tolerance
Clamp(ppl) ==
  [i \in DOMAIN ppl |->
     IF Abs(ppl[i].balance) <= SETTLEMENT_TOLERANCE
     THEN [ppl[i] EXCEPT !.balance = 0] ELSE ppl[i]]

\* a settlement that books each transfer as a payment of the debitor
settle_booking_payments(ppl) ==
  LET done == SettleLoop(ppl, Creditors(ppl), Debitors(ppl), <<>>)
      settled == Clamp(done.people)
  IN  [people |-> [i \in DOMAIN settled |->
                     [settled[i] EXCEPT
                        !.paid = @ + (settled[i].balance - ppl[i].balance)]],
       txs |-> done.txs]

settle(ppl) ==
  LET done == SettleLoop(ppl, Creditors(ppl), Debitors(ppl), <<>>)
  IN  [people |-> Clamp(done.people), txs |-> done.txs]

(***************************************************************************)
(* Inputs of the operations                                                *)
(***************************************************************************)
Alice == <<"a">>
Bob == <<"b">>
Carol == <<"c">>
\* " C" cleans to Carol
CarolRaw == <<" ", "C">>
Blank == <<" ">>
BadName == <<"a", "!">>
LongName == [i \in 1 .. (MAX_NAME_LENGTH + 1) |-> "x"]

PersonNames == {Alice, <<"B", " ">>, Blank}

NoParams == [weights |-> <<>>, percentages |-> <<>>, exact_amounts |-> <<>>]

Entry(k, v) == [key |-> k, val |-> v]
Weights(w) == [NoParams EXCEPT !.weights = w]
Percentages(p) == [NoParams EXCEPT !.percentages = p]
ExactAmounts(x) == [NoParams EXCEPT !.exact_amounts = x]

\* amounts in thousandths: 10.00, 200.00, 0.03
EqualInputs ==
  [payer : {Alice, Bob}, amount : {10000},
   participants : {<<Bob, Alice, CarolRaw>>},
   split : {"equal"}, kwargs : {NoParams}]

\* percentages in hundredths of a percent: 50 + 50.01 and 60 + 30
PercentInputs ==
  [payer : {Alice}, amount : {200000}, participants : {<<Alice, Bob>>},
   split : {"percent"},
   kwargs : {Percentages(<<Entry(Alice, 5000), Entry(<<"B">>, 5001)>>),
             Percentages(<<Entry(Alice, 6000), Entry(Bob, 3000)>>)}]

WeightsInputs ==
  [payer : {Bob}, amount : {10000}, participants : {<<Alice, Bob>>},
   split : {"weights"},
   kwargs : {Weights(<<Entry(Alice, 1), Entry(Bob, 2)>>),
             Weights(<<Entry(Alice, 0), Entry(Bob, 0)>>)}]

\* exact amounts in units: 0.014 + 0.014, which round(total, 2) takes for 0.03
ExactInputs ==
  [payer : {Alice}, amount : {30}, participants : {<<Alice, Bob>>},
   split : {"exact"},
   kwargs : {ExactAmounts(<<Entry(Alice, 42000), Entry(Bob, 42000)>>)}]

\* calls the entry checks or the Expense constructor reject: no payer, no
\* participants, only blank participants, a duplicate participant, a bad
\* or too long name, amounts 0, 0.015 and 1000000.00, an unknown split
RejectedInputs ==
  [payer : {Blank}, amount : {10000}, participants : {<<Alice>>},
   split : {"equal"}, kwargs : {NoParams}]
  \cup
  [payer : {Alice}, amount : {10000},
   participants : {<<>>, <<Blank>>, <<Bob, <<"B">>>>, <<Bob, BadName>>, <<LongName>>},
   split : {"equal"}, kwargs : {NoParams}]
  \cup
  [payer : {Alice}, amount : {0, 15, 1000000000},
   participants : {<<Alice, Bob>>}, split : {"equal"}, kwargs : {NoParams}]
  \cup
  [payer : {Carol}, amount : {10000}, participants : {<<Alice, Bob>>},
   split : {"bogus"}, kwargs : {NoParams}]

ExpenseInputs ==
  EqualInputs \cup PercentInputs \cup WeightsInputs \cup ExactInputs
  \cup RejectedInputs

\* the number of "y" answers before the first "n": a call prompts at most
\* for the three names it does not know
PromptAnswers == 0 .. 3

(***************************************************************************)
(* State machine.  lastOp names the operation that produced the state, the *)
(* exception it raised and, for balances(), what it follows: another       *)
(* balances(), or a settle() of recomputed balances; txs are the           *)
(* transactions the last operation printed; recomputed holds the balances  *)
(* of the last successful balances() for as long as no person or expense   *)
(* has been added since.  call and result are the arguments and the        *)
(* outcome of a call the specifications below record; Spec records none.   *)
(***************************************************************************)
NoCall == [op |-> "none"]
NoResult == [err |-> "not called"]

NotRecomputed == [valid |-> FALSE, balance |-> <<>>]

BalanceOf(ppl) == [i \in DOMAIN ppl |-> ppl[i].balance]

Done(op, err) ==
  [op |-> op, err |-> err,
   after |-> IF op = "balances" /\ lastOp.op = "balances" THEN "balances"
             ELSE IF op = "balances" /\ lastOp.op = "settle" /\ recomputed.valid
               THEN "recomputed and settled"
             ELSE "other"]

Init ==
  /\ people = <<>>
  /\ expenses = <<>>
  /\ lastOp = [op |-> "init", err |-> "none", after |-> "other"]
  /\ txs = <<>>
  /\ recomputed = NotRecomputed
  /\ call = NoCall
  /\ result = NoResult

AddPerson(name, balance, paid, owe) ==
  \E r \in {add_person(people, name, balance, paid, owe)} :
    /\ people' = r.people
    /\ lastOp' = Done("add_person", r.err)
    /\ txs' = <<>>
    /\ recomputed' = NotRecomputed
    /\ UNCHANGED <<expenses, call, result>>

AddExpense(in, yes) ==
  /\ Len(expenses) < MaxExpenses
  /\ \E r \in {add_expense(people, expenses, in.payer, in.amount, in.participants,
                            in.split, in.kwargs, yes)} :
       /\ people' = r.people
       /\ expenses' = r.expenses
       /\ lastOp' = Done("add_expense", r.err)
       /\ txs' = <<>>
       /\ recomputed' = NotRecomputed
       /\ UNCHANGED <<call, result>>

Balances ==
  \E r \in {balances(people, expenses)} :
    /\ people' = r.people
    /\ lastOp' = Done("balances", r.err)
    /\ txs' = <<>>
    /\ recomputed' = IF r.err = "none"
                     THEN [valid |-> TRUE, balance |-> BalanceOf(r.people)]
                     ELSE NotRecomputed
    /\ UNCHANGED <<expenses, call, result>>

Settle ==
  \E r \in {settle(people)} :
    /\ people' = r.people
    /\ lastOp' = Done("settle", "none")
    /\ txs' = r.txs
    /\ UNCHANGED <<expenses, recomputed, call, result>>

Next ==
  \/ \E name \in PersonNames : AddPerson(name, 0, 0, 0)
  \/ \E in \in ExpenseInputs, yes \in PromptAnswers : AddExpense(in, yes)
  \/ Balances
  \/ Settle

Spec == Init /\ [][Next]_vars

(***************************************************************************)
(* Properties                                                              *)
(***************************************************************************)
SumBalances(ppl) == SumSeq(BalanceOf(ppl))
\* the creditor total and the debtor total (as a positive amount)
PosTotal(bal) == SumSeq([i \in DOMAIN bal |-> IF bal[i] > 0 THEN bal[i] ELSE 0])
NegTotal(bal) == SumSeq([i \in DOMAIN bal |-> IF bal[i] < 0 THEN -bal[i] ELSE 0])
CountPos(bal) == Cardinality({i \in DOMAIN bal : bal[i] > 0})
CountNeg(bal) == Cardinality({i \in DOMAIN bal : bal[i] < 0})
SumTxs(t) == SumSeq([i \in DOMAIN t |-> t[i].amount])
ParamsValid(e) == compute_shares(e.split, e.amount, e.participants).err = "none"
SamePerson(p, q) == p.name = q.name /\ p.paid = q.paid /\ p.owe = q.owe

\* C1: after settle() of recomputed balances every balance is within the
\* settlement tolerance of zero.
C1_SettledWithinTolerance ==
  (lastOp.op = "settle" /\ recomputed.valid)
    => \A i \in DOMAIN people : Abs(people[i].balance) <= SETTLEMENT_TOLERANCE

\* C2: after a successful balances() the balances sum to zero within 0.01.
C2_Conservation ==
  (lastOp.op = "balances" /\ lastOp.err = "none")
    => Abs(SumBalances(people)) <= SETTLEMENT_TOLERANCE

C4_StoredParamsValid == \A i \in DOMAIN expenses : ParamsValid(expenses[i])

\* C5: balances() and settle() never raise, and settle() of an empty ledger
\* does nothing.
C5_RecomputeAndSettleNeverRaise ==
  /\ lastOp.op \in {"balances", "settle"} => lastOp.err = "none"
  /\ (lastOp.op = "settle" /\ people = <<>>) => txs = <<>>

\* C6: a balances() right after a balances() leaves every person's paid, owe
\* and balance as the first call left them (and ends as the first call did).
C6_RecomputeIdempotent ==
  [][(lastOp.op = "balances" /\ lastOp'.op = "balances")
       => (people' = people /\ lastOp'.err = lastOp.err)]_vars

\* a second balances() in a row over expenses that leave someone owing
C6_Witness ==
  /\ lastOp.op = "balances"
  /\ lastOp.after = "balances"
  /\ lastOp.err = "none"
  /\ \E i \in DOMAIN people : people[i].owe > 0 /\ people[i].balance # 0

\* C7: balances() after a settle() of recomputed balances succeeds and gives
\* every person the balance the recomputation before the settle() gave.
C7_RecomputeRestoresAfterSettle ==
  [][(lastOp.op = "settle" /\ recomputed.valid /\ lastOp'.op = "balances")
       => (lastOp'.err = "none" /\ BalanceOf(people') = recomputed.balance)]_vars

\* balances() has restored a balance that settle() had brought to zero
C7_Witness ==
  /\ lastOp.op = "balances"
  /\ lastOp.after = "recomputed and settled"
  /\ lastOp.err = "none"
  /\ \E i \in DOMAIN people : Abs(people[i].balance) > SETTLEMENT_TOLERANCE

\* C8: settle() leaves the expenses, the people (and their order) and every
\* person's paid and owe as they were.
C8_SettleChangesOnlyBalances ==
  [][lastOp'.op = "settle" =>
       /\ expenses' = expenses
       /\ DOMAIN people' = DOMAIN people
       /\ \A i \in DOMAIN people : SamePerson(people'[i], people[i])]_vars

\* a settle() that moved money in a ledger with expenses
C8_Witness ==
  /\ lastOp.op = "settle"
  /\ txs # <<>>
  /\ expenses # <<>>
  /\ \E i \in DOMAIN people : people[i].paid > 0 /\ people[i].owe > 0

\* C9 as stated: in every reachable state each balance is round(paid - owe, 2).
C9_BalanceAlwaysPaidMinusOwe ==
  \A i \in DOMAIN people :
    people[i].balance = Round2(people[i].paid - people[i].owe)

\* C9 amended: right after a successful balances() each balance is
\* round(paid - owe, 2); add_person and add_expense change the balance of no
\* person already in the ledger (balances() and settle() are what changes it).
C9_BalanceAfterRecompute ==
  [][/\ (lastOp'.op = "balances" /\ lastOp'.err = "none")
          => \A i \in DOMAIN people' :
               people'[i].balance = Round2(people'[i].paid - people'[i].owe)
     /\ lastOp'.op \in {"add_person", "add_expense"}
          => \A i \in DOMAIN people : people'[i].balance = people[i].balance]_vars

\* a successful balances() that had to round: somebody owes a fraction of a cent
C9_Witness ==
  /\ lastOp.op = "balances"
  /\ lastOp.err = "none"
  /\ \E i \in DOMAIN people :
       people[i].owe % UNITS_PER_CENT # 0 /\ people[i].balance # 0

\* C10: an add_expense that raises leaves the people and the expenses as they
\* were.
C10_RejectedExpenseChangesNothing ==
  [][(lastOp'.op = "add_expense" /\ lastOp'.err # "none")
       => (people' = people /\ expenses' = expenses)]_vars

(***************************************************************************)
(* The split strategies called on their own: compute_shares(amount,        *)
(* participants) of a strategy object built with the parameters params.    *)
(* Amounts are in cents, as Expense stores them; every division of the     *)
(* calls below is exact in units.                                          *)
(***************************************************************************)
ComputeCall(kind, amount, participants, params) ==
  [op |-> "compute_shares", kind |-> kind, amount |-> amount,
   participants |-> participants, params |-> params]

\* 0.01, 10.00 and 200.00
EqualCalls ==
  {ComputeCall("equal", a, ps, <<>>) :
     a \in {1, 1000, 20000},
     ps \in {<<Alice>>, <<Alice, Bob>>, <<Bob, Alice, Carol>>}}

\* weights that are fine, all zero, negative, missing, extra, absent, and
\* under keys that need cleaning
WeightsCalls ==
  {ComputeCall("weights", a, <<Alice, Bob>>, w) :
     a \in {1000, 20000},
     w \in {<<Entry(Alice, 1), Entry(Bob, 2)>>,
            <<Entry(Alice, 1), Entry(Bob, 1)>>,
            <<Entry(Alice, 0), Entry(Bob, 1)>>,
            <<Entry(Alice, 0), Entry(Bob, 0)>>,
            <<Entry(Alice, -1), Entry(Bob, 2)>>,
            <<Entry(Alice, 1)>>,
            <<Entry(Alice, 1), Entry(Bob, 1), Entry(Carol, 1)>>,
            <<Entry(Alice, 1), Entry(Carol, 1)>>,
            <<>>,
            <<Entry(<<"A", " ">>, 1), Entry(<<" ", "b">>, 3)>>}}
  \cup
  {ComputeCall("weights", 1000, <<Bob, Alice, Carol>>,
               <<Entry(Alice, 1), Entry(Bob, 2), Entry(CarolRaw, 3)>>)}

\* percentages in hundredths of a percent: sums of 100, 100.01, 99.99, 100.02,
\* 99.98 and 90, a percentage under the minimum and one over the maximum,
\* missing, extra and absent percentages, keys that need cleaning
PercentCalls ==
  {ComputeCall("percent", a, <<Alice, Bob>>, p) :
     a \in {1000, 20000},
     p \in {<<Entry(Alice, 5000), Entry(Bob, 5000)>>,
            <<Entry(Alice, 5000), Entry(Bob, 5001)>>,
            <<Entry(Alice, 4999), Entry(Bob, 5000)>>,
            <<Entry(Alice, 5000), Entry(Bob, 5002)>>,
            <<Entry(Alice, 4998), Entry(Bob, 5000)>>,
            <<Entry(Alice, 6000), Entry(Bob, 3000)>>,
            <<Entry(Alice, 2500), Entry(Bob, 7500)>>,
            <<Entry(Alice, 1), Entry(Bob, 9999)>>,
            <<Entry(Alice, 1), Entry(Bob, 10000)>>,
            <<Entry(Alice, 0), Entry(Bob, 10000)>>,
            <<Entry(Alice, 10000)>>,
            <<Entry(Alice, 5000), Entry(Bob, 2500), Entry(Carol, 2500)>>,
            <<>>,
            <<Entry(<<"A", " ">>, 2500), Entry(<<"B">>, 7500)>>}}
  \cup
  {ComputeCall("percent", 20000, <<Alice>>, <<Entry(Alice, p)>>) :
     p \in {9999, 10000, 10001}}

\* exact amounts in units: 10.00 + 20.00, 10.004 + 20.00, 10.006 + 20.00,
\* 10.00 + 19.99, -10.00 + 40.00, missing, extra and absent amounts, keys
\* that need cleaning; 0.014 + 0.014 for 0.03
ExactCalls ==
  {ComputeCall("exact", 3000, <<Alice, Bob>>, x) :
     x \in {<<Entry(Alice, CentsToUnits(1000)), Entry(Bob, CentsToUnits(2000))>>,
            <<Entry(Alice, CentsToUnits(1000) + 12000),
              Entry(Bob, CentsToUnits(2000))>>,
            <<Entry(Alice, CentsToUnits(1000) + 18000),
              Entry(Bob, CentsToUnits(2000))>>,
            <<Entry(Alice, CentsToUnits(1000)), Entry(Bob, CentsToUnits(1999))>>,
            <<Entry(Alice, CentsToUnits(-1000)), Entry(Bob, CentsToUnits(4000))>>,
            <<Entry(Alice, CentsToUnits(3000))>>,
            <<Entry(Alice, CentsToUnits(1000)), Entry(Bob, CentsToUnits(1000)),
              Entry(Carol, CentsToUnits(1000))>>,
            <<>>,
            <<Entry(<<"A">>, CentsToUnits(1000)),
              Entry(<<"b", " ">>, CentsToUnits(2000))>>}}
  \cup
  {ComputeCall("exact", a, <<Alice, Bob>>,
               <<Entry(Alice, 42000), Entry(Bob, 42000)>>) : a \in {2, 3}}

SplitCalls == EqualCalls \cup WeightsCalls \cup PercentCalls \cup ExactCalls

SplitInit ==
  /\ people = <<>>
  /\ expenses = <<>>
  /\ lastOp = [op |-> "init", err |-> "none", after |-> "other"]
  /\ txs = <<>>
  /\ recomputed = NotRecomputed
  /\ call \in SplitCalls
  /\ result = NoResult

ComputeEqual ==
  /\ call.kind = "equal"
  /\ result = NoResult
  /\ result' = EqualSplit(call.amount, call.participants)
  /\ UNCHANGED <<people, expenses, lastOp, txs, recomputed, call>>

ComputeWeights ==
  /\ call.kind = "weights"
  /\ result = NoResult
  /\ result' = WeightsSplit(call.amount, call.participants, call.params)
  /\ UNCHANGED <<people, expenses, lastOp, txs, recomputed, call>>

ComputePercent ==
  /\ call.kind = "percent"
  /\ result = NoResult
  /\ result' = PercentSplit(call.amount, call.participants, call.params)
  /\ UNCHANGED <<people, expenses, lastOp, txs, recomputed, call>>

ComputeExact ==
  /\ call.kind = "exact"
  /\ result = NoResult
  /\ result' = ExactSplit(call.amount, call.participants, call.params)
  /\ UNCHANGED <<people, expenses, lastOp, txs, recomputed, call>>

SplitNext == ComputeEqual \/ ComputeWeights \/ ComputePercent \/ ComputeExact

SplitSpec == SplitInit /\ [][SplitNext]_vars

(***************************************************************************)
(* Properties of the split strategies                                      *)
(***************************************************************************)
Computed(kind) == call.op = "compute_shares" /\ call.kind = kind /\ result # NoResult
\* the value given for participant i and the total over the participants
Given(i) == CleanValue(call.params, call.participants[i])
GivenTotal == SumSeq([i \in DOMAIN call.participants |-> Given(i)])
SumShares == SumSeq([i \in DOMAIN result.shares |-> result.shares[i].share])
\* one value for each participant and none for anybody else
OnePerParticipant ==
  {Lower(Strip(call.params[i].key)) : i \in DOMAIN call.params}
    = Range(call.participants)
\* one share for each participant, in the order of the participants
SharesFor ==
  /\ DOMAIN result.shares = DOMAIN call.participants
  /\ \A i \in DOMAIN call.participants :
       result.shares[i].name = call.participants[i]
HundredPercent == 100 * 100

C16_WitnessRejected ==
  /\ Computed("percent")
  /\ OnePerParticipant
  /\ result.err = "ValueError"
  /\ GivenTotal = HundredPercent - 2 * PERCENTAGE_TOLERANCE

\* C17: ExactSplit.compute_shares, given one amount for each participant,
\* succeeds exactly when round(sum of the amounts, 2) = round(amount, 2) and
\* raises ValueError otherwise; on success each share is the amount given,
\* unrounded.
C17_ExactSplit ==
  Computed("exact") =>
    /\ OnePerParticipant =>
         IF Round2(GivenTotal) = Round2(CentsToUnits(call.amount))
         THEN result.err = "none"
         ELSE result.err = "ValueError"
    /\ result.err = "none" =>
         /\ SharesFor
         /\ \A i \in DOMAIN call.participants : result.shares[i].share = Given(i)

\* amounts that sum to the expense amount only after rounding were accepted
\* and returned with their third decimal
C17_Witness ==
  /\ Computed("exact")
  /\ result.err = "none"
  /\ GivenTotal # CentsToUnits(call.amount)
  /\ \E i \in DOMAIN result.shares : ~is_valid_money(result.shares[i].share)

\* C18: WeightsSplit.compute_shares raises ValueError if a participant has no
\* weight, if a weight is negative or if the weights total zero; given one
\* non-negative weight for each participant with a positive total it returns
\* share_i = amount * weight_i / total for every participant, and the shares
\* sum to the amount.
C18_WeightsSplit ==
  Computed("weights") =>
    /\ ( \/ ~(Range(call.participants) \subseteq CleanKeys(call.params))
         \/ \E k \in CleanKeys(call.params) : CleanValue(call.params, k) < 0
         \/ OnePerParticipant /\ GivenTotal = 0 )
         => result.err = "ValueError"
    /\ ( /\ OnePerParticipant
         /\ \A i \in DOMAIN call.participants : Given(i) >= 0
         /\ GivenTotal > 0 )
         => result.err = "none"
    /\ result.err = "none" =>
         /\ SharesFor
         /\ \A i \in DOMAIN call.participants :
              result.shares[i].share * GivenTotal
                = CentsToUnits(call.amount) * Given(i)
         /\ SumShares = CentsToUnits(call.amount)

\* unequal weights gave unequal shares
C18_Witness ==
  /\ Computed("weights")
  /\ result.err = "none"
  /\ \E i, j \in DOMAIN result.shares :
       /\ Given(i) < Given(j)
       /\ 0 < result.shares[i].share
       /\ result.shares[i].share < result.shares[j].share

\* C19: EqualSplit.compute_shares gives each of the N participants
\* amount / N, unrounded, and the N shares sum to the amount.
C19_EqualSplit ==
  Computed("equal") =>
    /\ result.err = "none"
    /\ SharesFor
    /\ \A i \in DOMAIN call.participants :
         result.shares[i].share * Len(call.participants) = CentsToUnits(call.amount)
    /\ SumShares = CentsToUnits(call.amount)

\* three shares of a third of a cent each
C19_Witness ==
  /\ Computed("equal")
  /\ Len(result.shares) = 3
  /\ \A i \in DOMAIN result.shares : ~is_valid_money(result.shares[i].share)

\* C20: the weights, percent and exact strategies clean the parameter keys
\* (strip, lower) and raise ValueError unless the cleaned keys are exactly the
\* participants; keys that differ from the participants only by case or
\* surrounding whitespace are accepted.
C20_KeysMatchParticipants ==
  (call.op = "compute_shares" /\ call.kind # "equal" /\ result # NoResult) =>
    /\ ~OnePerParticipant => result.err = "ValueError"
    /\ ( /\ OnePerParticipant
         /\ CASE call.kind = "weights" ->
                   /\ \A i \in DOMAIN call.participants : Given(i) >= 0
                   /\ GivenTotal > 0
              [] call.kind = "percent" ->
                   /\ \A i \in DOMAIN call.participants :
                        Given(i) >= MIN_PERCENTAGE /\ Given(i) <= MAX_PERCENTAGE
                   /\ Abs(GivenTotal - HundredPercent) <= PERCENTAGE_TOLERANCE
              [] call.kind = "exact" ->
                   Round2(GivenTotal) = Round2(CentsToUnits(call.amount)) )
         => result.err = "none"

\* parameters under keys that are not the participants' names as written
\* were accepted
C20_Witness ==
  /\ call.op = "compute_shares"
  /\ call.kind # "equal"
  /\ result.err = "none"
  /\ \E i \in DOMAIN call.params : call.params[i].key \notin Range(call.participants)

\* parameters with an extra key were rejected
C20_WitnessExtra ==
  /\ call.op = "compute_shares"
  /\ call.kind # "equal"
  /\ result.err = "ValueError"
  /\ Range(call.participants) \subseteq CleanKeys(call.params)
  /\ ~OnePerParticipant

(***************************************************************************)
(* The ledger with its calls on record: call holds the arguments of the    *)
(* last call (for add_expense with the answers to its prompts and the      *)
(* number of people it created), and add_person is called with initial     *)
(* values as well.                                                         *)
(***************************************************************************)
MaxCallExpenses == 1

\* balance, paid and owe in units: the defaults, 5.00 / 7.00 / 2.00, and a
\* balance of a third of a cent, which is_valid_money refuses
InitialValues ==
  {[balance |-> 0, paid |-> 0, owe |-> 0],
   [balance |-> CentsToUnits(500), paid |-> CentsToUnits(700),
    owe |-> CentsToUnits(200)],
   [balance |-> CentsToUnits(1) \div 3, paid |-> 0, owe |-> 0]}

CallPersonNames == {Alice, <<"B", " ">>, BadName}

CallExpenseInputs == EqualInputs \cup RejectedInputs

CallInit ==
  /\ people = <<>>
  /\ expenses = <<>>
  /\ lastOp = [op |-> "init", err |-> "none", after |-> "other"]
  /\ txs = <<>>
  /\ recomputed = NotRecomputed
  /\ call = NoCall
  /\ result = NoResult

CallAddPerson(name, initial) ==
  \E r \in {add_person(people, name, initial.balance, initial.paid, initial.owe)} :
    /\ people' = r.people
    /\ lastOp' = Done("add_person", r.err)
    /\ call' = [op |-> "add_person", name |-> name, initial |-> initial]
    /\ txs' = <<>>
    /\ recomputed' = NotRecomputed
    /\ UNCHANGED <<expenses, result>>

CallAddExpense(in, yes) ==
  /\ Len(expenses) < MaxCallExpenses
  /\ \E r \in {add_expense(people, expenses, in.payer, in.amount, in.participants,
                            in.split, in.kwargs, yes)} :
       /\ people' = r.people
       /\ expenses' = r.expenses
       /\ lastOp' = Done("add_expense", r.err)
       /\ call' = [op |-> "add_expense", in |-> in, yes |-> yes,
                   created |-> Len(r.people) - Len(people)]
       /\ txs' = <<>>
       /\ recomputed' = NotRecomputed
       /\ UNCHANGED result

CallBalances ==
  \E r \in {balances(people, expenses)} :
    /\ people' = r.people
    /\ lastOp' = Done("balances", r.err)
    /\ call' = [op |-> "balances"]
    /\ txs' = <<>>
    /\ recomputed' = IF r.err = "none"
                     THEN [valid |-> TRUE, balance |-> BalanceOf(r.people)]
                     ELSE NotRecomputed
    /\ UNCHANGED <<expenses, result>>

CallNext ==
  \/ \E name \in CallPersonNames, initial \in InitialValues :
       CallAddPerson(name, initial)
  \/ \E in \in CallExpenseInputs, yes \in PromptAnswers : CallAddExpense(in, yes)
  \/ CallBalances

CallSpec == CallInit /\ [][CallNext]_vars

(***************************************************************************)
(* Properties of add_person and add_expense                                *)
(***************************************************************************)
\* the cleaned names of an add_expense call: the payer and the participants
\* that are not blank
CleanParticipants(in) ==
  LET kept == SelectSeq(in.participants, NonBlank)
  IN  [i \in DOMAIN kept |-> Lower(Strip(kept[i]))]
Named(in) == {Lower(Strip(in.payer))} \cup Range(CleanParticipants(in))
Missing(ppl, in) == {n \in Named(in) : ~HasPerson(ppl, n)}
\* the call passes the checks add_expense makes before it looks for people
PassesEntryChecks(in) ==
  /\ Strip(in.payer) # <<>>
  /\ CleanParticipants(in) # <<>>
  /\ in.amount > 0
\* the Expense the call describes is a valid one
DescribesExpense(in) ==
  /\ in.amount > 0
  /\ in.amount <= MAX_AMOUNT
  /\ in.amount % MILLS_PER_CENT = 0
  /\ CleanParticipants(in) # <<>>
  /\ \A i, j \in DOMAIN CleanParticipants(in) :
       CleanParticipants(in)[i] = CleanParticipants(in)[j] => i = j
  /\ \A n \in Named(in) : NameError(n) = "none"
  /\ in.split \in SplitKinds
PaidOf(ppl, n) == IF HasPerson(ppl, n) THEN ppl[IndexOf(ppl, n)].paid ELSE 0

\* C11: an add_expense that names people the ledger does not have, and that
\* is otherwise a valid call: if every prompt is answered "create", the
\* missing people are added, one expense is appended and the payer's paid
\* grows by the amount; if a prompt is answered "reject", IndexError is raised,
\* no expense is appended and nobody's paid changes.
C11_CreateOrReject ==
  [][(call'.op = "add_expense" /\ lastOp'.op = "add_expense") =>
       LET in == call'.in
           missing == Missing(people, in)
       IN  ( /\ PassesEntryChecks(in)
             /\ missing # {}
             /\ \A n \in missing : NameError(n) = "none" ) =>
             IF call'.yes >= Cardinality(missing)
             THEN DescribesExpense(in) =>
                    /\ lastOp'.err = "none"
                    /\ \A n \in missing : HasPerson(people', n)
                    /\ Len(people') = Len(people) + Cardinality(missing)
                    /\ Len(expenses') = Len(expenses) + 1
                    /\ PaidOf(people', Lower(Strip(in.payer)))
                         = PaidOf(people, Lower(Strip(in.payer)))
                             + CentsToUnits(in.amount \div MILLS_PER_CENT)
             ELSE /\ lastOp'.err = "IndexError"
                  /\ expenses' = expenses
                  /\ \A i \in DOMAIN people' :
                       people'[i].paid = PaidOf(people, people'[i].name)]_vars

\* an add_expense created the people it named and recorded the expense
C11_Witness ==
  /\ call.op = "add_expense"
  /\ call.created >= 2
  /\ lastOp.err = "none"
  /\ expenses # <<>>
  /\ \E i \in DOMAIN people : people[i].paid > 0

\* an add_expense was stopped by a "reject" after it had created somebody
C11_WitnessReject ==
  /\ call.op = "add_expense"
  /\ call.created >= 1
  /\ lastOp.err = "IndexError"
  /\ expenses = <<>>

\* C12: add_person with a name that, stripped and lowercased, is already in
\* the ledger raises nothing and leaves the people as they were: nobody is
\* added, and the person's paid, owe and balance are not overwritten by the
\* initial values of the call.
C12_AddExistingPersonIsNoOp ==
  [][(call'.op = "add_person" /\ lastOp'.op = "add_person"
        /\ HasPerson(people, Lower(Strip(call'.name))))
       => (lastOp'.err = "none" /\ people' = people)]_vars

\* add_person was called for somebody who is there, with other initial values
\* than the person has
C12_Witness ==
  /\ call.op = "add_person"
  /\ lastOp.err = "none"
  /\ \E i \in DOMAIN people :
       /\ people[i].name = Lower(Strip(call.name))
       /\ people[i].name # call.name
       /\ people[i].paid # call.initial.paid
       /\ people[i].balance # call.initial.balance
       /\ people[i].paid > 0

\* C14: a successful add_expense appends one expense to the end of the list
\* and leaves the earlier ones as they were, adds the amount of the expense to
\* the payer's paid and changes nobody else's paid and nobody's owe or
\* balance (a person it creates starts at zero).
C14_AddExpenseFrame ==
  [][(lastOp'.op = "add_expense" /\ lastOp'.err = "none") =>
       /\ Len(expenses') = Len(expenses) + 1
       /\ SubSeq(expenses', 1, Len(expenses)) = expenses
       /\ LET e == expenses'[Len(expenses')]
          IN  /\ e.amount > 0
              /\ HasPerson(people', e.payer)
              /\ \A i \in DOMAIN people' :
                   LET before == IF i \in DOMAIN people THEN people[i]
                                 ELSE [name |-> people'[i].name, balance |-> 0,
                                       paid |-> 0, owe |-> 0]
                   IN  /\ people'[i].name = before.name
                       /\ people'[i].owe = before.owe
                       /\ people'[i].balance = before.balance
                       /\ people'[i].paid =
                            IF people'[i].name = e.payer
                            THEN before.paid + CentsToUnits(e.amount)
                            ELSE before.paid]_vars

\* a second expense was added to a ledger whose people have balances
C14_Witness ==
  /\ lastOp.op = "add_expense"
  /\ lastOp.err = "none"
  /\ Len(expenses) >= 2
  /\ expenses[1] # expenses[2]
  /\ \E i \in DOMAIN people : people[i].balance # 0 /\ people[i].owe # 0

MAX_PEOPLE == 1000

DigitChar(d) == <<"0", "1", "2", "3", "4", "5", "6", "7", "8", "9">>[d + 1]

CrowdName(i) ==
  <<"p", DigitChar((i \div 1000) % 10), DigitChar((i \div 100) % 10),
    DigitChar((i \div 10) % 10), DigitChar(i % 10)>>

PopulationInit ==
  /\ people = <<>>
  /\ expenses = <<>>
  /\ lastOp = [op |-> "init", err |-> "none", after |-> "other"]
  /\ txs = <<>>
  /\ recomputed = NotRecomputed
  /\ call = NoCall
  /\ result = NoResult

\* the next newcomer; the population is followed up to one person over
\* MAX_PEOPLE
AddNextPerson ==
  /\ Len(people) <= MAX_PEOPLE
  /\ \E r \in {add_person(people, CrowdName(Len(people) + 1), 0, 0, 0)} :
       /\ people' = r.people
       /\ lastOp' = Done("add_person", r.err)
       /\ call' = [op |-> "add_person", name |-> CrowdName(Len(people) + 1),
                   size |-> Len(people)]
       /\ txs' = <<>>
       /\ recomputed' = NotRecomputed
       /\ UNCHANGED <<expenses, result>>

AddExpenseAtCapacity(in, yes) ==
  /\ Len(people) >= MAX_PEOPLE
  /\ Len(expenses) < MaxExpenses
  /\ \E r \in {add_expense(people, expenses, in.payer, in.amount, in.participants,
                            in.split, in.kwargs, yes)} :
       /\ people' = r.people
       /\ expenses' = r.expenses
       /\ lastOp' = Done("add_expense", r.err)
       /\ call' = [op |-> "add_expense", in |-> in, yes |-> yes,
                   size |-> Len(people)]
       /\ txs' = <<>>
       /\ recomputed' = NotRecomputed
       /\ UNCHANGED result

PopulationNext ==
  \/ AddNextPerson
  \/ \E in \in EqualInputs, yes \in PromptAnswers : AddExpenseAtCapacity(in, yes)

PopulationSpec == PopulationInit /\ [][PopulationNext]_vars

\* C13: the ledger never holds more than MAX_PEOPLE people, and an add_person
\* or an auto-creation for a new name in a ledger of MAX_PEOPLE people raises.
C13_PopulationBounded ==
  /\ Len(people) <= MAX_PEOPLE
  /\ (call.op \in {"add_person", "add_expense"} /\ call.size >= MAX_PEOPLE
        /\ Len(people) > call.size)
       => lastOp.err # "none"

(***************************************************************************)
(* The scenarios of the integration tests: up to six people added in a     *)
(* fixed order, and equal expenses among the first three or the last       *)
(* three.  Every "Create? (y/n)" prompt is answered "n".                   *)
(***************************************************************************)
MaxScenarioExpenses == 3

Dave == <<"d">>
Erin == <<"e">>
Frank == <<"f">>

Everyone == <<Alice, Bob, Carol, Dave, Erin, Frank>>

\* amounts in thousandths: 150.00, 10.00, 30.00, 18.00 among the first three
\* and 10.00 among the last three
ScenarioInputs ==
  [payer : {Alice}, amount : {150000, 10000},
   participants : {<<Alice, Bob, Carol>>}, split : {"equal"}, kwargs : {NoParams}]
  \cup
  [payer : {Bob}, amount : {30000},
   participants : {<<Alice, Bob, Carol>>}, split : {"equal"}, kwargs : {NoParams}]
  \cup
  [payer : {Carol}, amount : {18000},
   participants : {<<Alice, Bob, Carol>>}, split : {"equal"}, kwargs : {NoParams}]
  \cup
  [payer : {Dave}, amount : {10000},
   participants : {<<Dave, Erin, Frank>>}, split : {"equal"}, kwargs : {NoParams}]

ScenarioAddPerson ==
  /\ Len(people) < Len(Everyone)
  /\ AddPerson(Everyone[Len(people) + 1], 0, 0, 0)

ScenarioAddExpense(in) ==
  /\ Len(expenses) < MaxScenarioExpenses
  /\ \E r \in {add_expense(people, expenses, in.payer, in.amount, in.participants,
                            in.split, in.kwargs, 0)} :
       /\ people' = r.people
       /\ expenses' = r.expenses
       /\ lastOp' = Done("add_expense", r.err)
       /\ txs' = <<>>
       /\ recomputed' = NotRecomputed
       /\ UNCHANGED <<call, result>>

ScenarioBalances == Balances

ScenarioSettle == Settle

ScenarioNext ==
  \/ ScenarioAddPerson
  \/ \E in \in ScenarioInputs : ScenarioAddExpense(in)
  \/ ScenarioBalances
  \/ ScenarioSettle

ScenarioSpec == Init /\ [][ScenarioNext]_vars

\* some stored expense has this payer and this amount (in cents)
Paid(payer, cents) ==
  \E i \in DOMAIN expenses :
    expenses[i].payer = payer /\ expenses[i].amount = cents

NamedBalances(ppl) == {<<ppl[i].name, ppl[i].balance>> : i \in DOMAIN ppl}

\* settle() follows a successful balances() in this step
SettlesRecomputed ==
  lastOp.op = "balances" /\ lastOp.err = "none" /\ lastOp'.op = "settle"

Transfer(from, to, cents) ==
  [from |-> from, to |-> to, amount |-> CentsToUnits(cents)]

\* alice, bob and carol, and the expenses 150.00, 30.00 and 18.00
TeamDinner ==
  /\ Len(people) = 3
  /\ Len(expenses) = 3
  /\ Paid(Alice, 15000) /\ Paid(Bob, 3000) /\ Paid(Carol, 1800)

\* C21: with alice paying 150.00, bob 30.00 and carol 18.00, each split
\* equally among the three, balances() gives alice +84.00, bob -36.00 and
\* carol -48.00; settle() then prints exactly the two transactions
\* bob -> alice 36.00 and carol -> alice 48.00, in either order, and leaves
\* every balance 0.00.
C21_TeamDinner ==
  [][/\ (TeamDinner' /\ lastOp'.op = "balances")
          => NamedBalances(people') = {<<Alice, CentsToUnits(8400)>>,
                                       <<Bob, -CentsToUnits(3600)>>,
                                       <<Carol, -CentsToUnits(4800)>>}
     /\ (TeamDinner /\ SettlesRecomputed)
          => /\ txs' \in {<<Transfer(Bob, Alice, 3600), Transfer(Carol, Alice, 4800)>>,
                          <<Transfer(Carol, Alice, 4800), Transfer(Bob, Alice, 3600)>>}
             /\ \A i \in DOMAIN people' : people'[i].balance = 0]_vars

C21_Witness ==
  TeamDinner /\ lastOp.op = "settle" /\ recomputed.valid /\ Len(txs) = 2

\* alice, bob and carol, and the one expense of 10.00 paid by alice
ThreeWaySplit ==
  /\ Len(people) = 3
  /\ Len(expenses) = 1
  /\ Paid(Alice, 1000)

\* C22: with the single expense 10.00 paid by alice and split equally among
\* alice, bob and carol, balances() leaves each owing exactly a third of
\* 10.00 and the balances +6.67, -3.33 and -3.33; settle() then leaves all
\* three balances exactly zero.
C22_ThreeWaySplit ==
  [][/\ (ThreeWaySplit' /\ lastOp'.op = "balances")
          => /\ \A i \in DOMAIN people' : 3 * people'[i].owe = CentsToUnits(1000)
             /\ NamedBalances(people') = {<<Alice, CentsToUnits(667)>>,
                                          <<Bob, -CentsToUnits(333)>>,
                                          <<Carol, -CentsToUnits(333)>>}
     /\ (ThreeWaySplit /\ SettlesRecomputed)
          => \A i \in DOMAIN people' : people'[i].balance = 0]_vars

\* the creditor is left with the cent that the clean-up absorbs
C22_Witness ==
  /\ ThreeWaySplit /\ lastOp.op = "settle" /\ recomputed.valid
  /\ SumTxs(txs) = CentsToUnits(666)
  /\ SumBalances(people) = 0

ShareIn(e, name) ==
  LET mapping == compute_shares(e.split, e.amount, e.participants)
  IN  SumSeq([i \in DOMAIN mapping.shares |->
                IF mapping.shares[i].name = name THEN mapping.shares[i].share
                ELSE 0])

ShareTotal(name) == SumSeq([k \in DOMAIN expenses |-> ShareIn(expenses[k], name)])

MaxSettlers == 3

\* -10.00, -5.00, -0.01, 0.00, 0.01, 0.02, 5.00, 10.00
SettleBalances ==
  {CentsToUnits(c) : c \in {0, 1, 2, 500, 1000}}
    \cup {-CentsToUnits(c) : c \in {1, 500, 1000}}

AddSettler(balance) ==
  /\ call = NoCall
  /\ Len(people) < MaxSettlers
  /\ \E r \in {add_person(people, Everyone[Len(people) + 1], balance, 0, 0)} :
       /\ people' = r.people
       /\ lastOp' = Done("add_person", r.err)
  /\ UNCHANGED <<expenses, txs, recomputed, call, result>>

SettlePartition ==
  /\ call = NoCall
  /\ call' = [op |-> "settle", pc |-> "loop", start |-> people,
              creditors |-> Creditors(people), debitors |-> Debitors(people)]
  /\ txs' = <<>>
  /\ UNCHANGED <<people, expenses, lastOp, recomputed, result>>

SettleTransfer ==
  /\ call.op = "settle" /\ call.pc = "loop"
  /\ loop_condition(people, call.creditors, call.debitors)
  /\ \E step \in {settle_iteration(people, call.creditors, call.debitors)} :
       /\ people' = step.people
       /\ txs' = Append(txs, step.tx)
       /\ call' = [call EXCEPT !.creditors = step.creditors,
                               !.debitors = step.debitors]
  /\ UNCHANGED <<expenses, lastOp, recomputed, result>>

SettleCleanUp ==
  /\ call.op = "settle" /\ call.pc = "loop"
  /\ ~loop_condition(people, call.creditors, call.debitors)
  /\ people' = Clamp(people)
  /\ call' = [call EXCEPT !.pc = "done"]
  /\ lastOp' = Done("settle", "none")
  /\ UNCHANGED <<expenses, txs, recomputed, result>>

SettleNext ==
  \/ \E balance \in SettleBalances : AddSettler(balance)
  \/ SettlePartition
  \/ SettleTransfer
  \/ SettleCleanUp

SettleSpec ==
  /\ Init
  /\ [][SettleNext]_vars
  /\ WF_vars(SettleTransfer)
  /\ WF_vars(SettleCleanUp)

Settling == call.op = "settle"
Settled == call.op = "settle" /\ call.pc = "done"
Transferred == Settling /\ Len(txs') = Len(txs) + 1
Started(i) == call.start[i].balance

\* the steps give what settle() gives when run in one go
SettleStepsAgree ==
  Settled => /\ people = settle(call.start).people
             /\ txs = settle(call.start).txs

\* the sender and the receiver of the transaction a step prints
Sender == IndexOf(people, txs'[Len(txs')].from)
Receiver == IndexOf(people, txs'[Len(txs')].to)
Amount == txs'[Len(txs')].amount

\* C24: no transaction of a settle() goes from or to a person whose balance
\* was within the settlement tolerance of zero when settle() was called.
C24_NoTransactionWithinTolerance ==
  Settling =>
    \A k \in DOMAIN txs, i \in DOMAIN call.start :
      Abs(Started(i)) <= SETTLEMENT_TOLERANCE
        => call.start[i].name \notin {txs[k].from, txs[k].to}

\* C25: each transaction of settle() goes from a person with the most
\* negative current balance to a person with the largest current balance,
\* for round(min(creditor balance, |debtor balance|), 2); the step takes
\* exactly that amount from the creditor's balance, adds it to the debtor's
\* and changes nothing else.
C25_LargestFirstTransfer ==
  [][Transferred =>
       /\ people[Sender].balance < 0
       /\ people[Receiver].balance > 0
       /\ \A i \in DOMAIN people :
            /\ people[Sender].balance <= people[i].balance
            /\ people[i].balance <= people[Receiver].balance
       /\ Amount = Round2(Min(people[Receiver].balance,
                              Abs(people[Sender].balance)))
       /\ people' = [people EXCEPT ![Receiver].balance = @ - Amount,
                                   ![Sender].balance = @ + Amount]]_vars

\* settle() has printed two transactions, the second to or from a person left
\* over by the first
C25_Witness ==
  /\ Settling /\ Len(txs) = 2
  /\ txs[1].amount # txs[2].amount
  /\ txs[1].to = txs[2].to \/ txs[1].from = txs[2].from

\* C28: each iteration of the loop of settle() removes at least one person
\* from the creditors or the debitors, so a call that starts with c creditors
\* and d debtors prints at most c + d - 1 transactions, and every call runs
\* to its end.
C28_SettleTerminates ==
  /\ [][Transferred =>
          Len(call'.creditors) + Len(call'.debitors)
            < Len(call.creditors) + Len(call.debitors)]_vars
  /\ [](Settling /\ txs # <<>> =>
          Len(txs) <= Len(Creditors(call.start)) + Len(Debitors(call.start)) - 1)
  /\ (Settling ~> Settled)

\* a call with three people has printed two transactions and ended
C28_Witness ==
  /\ Settled /\ Len(txs) = 2
  /\ Len(Creditors(call.start)) + Len(Debitors(call.start)) = 3

\* C29: among several creditors with the largest balance the one added to
\* the ledger first receives, and among several debtors with the most
\* negative balance the one added first pays.
C29_FirstAddedWinsTie ==
  [][Transferred =>
       \A i \in DOMAIN people :
         /\ people[i].balance = people[Receiver].balance => Receiver <= i
         /\ people[i].balance = people[Sender].balance => Sender <= i]_vars

\* the first transaction went to the first of two creditors who were owed
\* the same, or came from the first of two debtors who owed the same
C29_Witness ==
  /\ Settling /\ txs # <<>>
  /\ \E i, j \in DOMAIN call.start :
       /\ i < j
       /\ Started(i) = Started(j)
       /\ \/ txs[1].to = call.start[i].name
          \/ txs[1].from = call.start[i].name

====
